---- MODULE Spec2Model ----
(***************************************************************************)
(* Keep It Cherry backend: the REST handlers of the three server revisions *)
(* kept in the repository (src/unnamed/part_000, src/unnamed/part_001 and  *)
(* the server section of src/importVehicles.js) over the relational store. *)
(* Every handler awaits exactly one statement, so one request is one step. *)
(***************************************************************************)
EXTENDS Integers, Sequences, FiniteSets

\* ------------------------------------------------------------------ bounds
\* Highest identifier the vehicles sequence hands out before creation stops.
MaxId == 2
\* Highest identifier the service_history sequence hands out.
MaxSvc == 1
\* Years an ingestion script walks through.
MaxYears == 2
\* Longest list an ingestion script is given: CSV rows, makes.
MaxList == 3
\* Most models one make has in one year.
MaxModels == 2
\* Largest number of tries getJson is called with.
MaxTries == 5
\* Longest list of results the models API answers with.
MaxNames == 3
\* Most data rows the CSV given to the converter has.
MaxCsvRows == 4001

\* ------------------------------------------------------- JavaScript values
\* A JSON/JavaScript value: t is its type tag, n its number, s its characters.
JsVal(t, n, s) == [t |-> t, n |-> n, s |-> s]
Undefined == JsVal("undefined", 0, <<>>)
Null == JsVal("null", 0, <<>>)
NaN == JsVal("NaN", 0, <<>>)
Num(n) == JsVal("number", n, <<>>)
Str(s) == JsVal("string", 0, s)

DigitChars == <<"0", "1", "2", "3", "4", "5", "6", "7", "8", "9">>
IsDigit(c) == \E i \in 1..10 : DigitChars[i] = c
DigitVal(c) == (CHOOSE i \in 1..10 : DigitChars[i] = c) - 1

\* A faulty sanitiser: nothing is stripped.
DigitsKept(s) == s
\* The regular expression /[^\d]/g replaced by "": only the digits stay.
DigitsOnly(s) == SelectSeq(s, IsDigit)

RECURSIVE DecValue(_)
DecValue(s) ==
  IF s = <<>> THEN 0
  ELSE DecValue(SubSeq(s, 1, Len(s) - 1)) * 10 + DigitVal(s[Len(s)])

RECURSIVE NatToStr(_)
NatToStr(n) ==
  IF n < 10 THEN <<DigitChars[n + 1]>>
  ELSE NatToStr(n \div 10) \o <<DigitChars[(n % 10) + 1]>>

IntToStr(n) == IF n < 0 THEN <<"-">> \o NatToStr(0 - n) ELSE NatToStr(n)

AllDigits(s) == \A i \in 1..Len(s) : IsDigit(s[i])

\* Number(x)
ToNumber(v) ==
  CASE v.t = "number" -> v
    [] v.t = "null" -> Num(0)
    [] v.t = "string" ->
         IF AllDigits(v.s) THEN Num(DecValue(v.s))
         ELSE IF Len(v.s) > 1 /\ Head(v.s) = "-" /\ AllDigits(Tail(v.s))
              THEN Num(0 - DecValue(Tail(v.s)))
              ELSE NaN
    [] OTHER -> NaN

\* String(x)
JsString(v) ==
  CASE v.t = "string" -> v.s
    [] v.t = "number" -> IntToStr(v.n)
    [] v.t = "null" -> <<"n", "u", "l", "l">>
    [] v.t = "NaN" -> <<"N", "a", "N">>
    [] OTHER -> <<"u", "n", "d", "e", "f", "i", "n", "e", "d">>

\* !x is false
Truthy(v) ==
  CASE v.t = "number" -> v.n # 0
    [] v.t = "string" -> v.s # <<>>
    [] OTHER -> FALSE

\* x ?? d
Coalesce(v, d) == IF v.t \in {"undefined", "null"} THEN d ELSE v
\* x || d
OrElse(v, d) == IF Truthy(v) THEN v ELSE d
IsNaN(v) == v.t = "NaN"

\* Number(String(mileage ?? "0").replace(/[^\d]/g, ""))
DigitsNumber(mileage) ==
  ToNumber(Str(DigitsOnly(JsString(Coalesce(mileage, Str(<<"0">>))))))

\* ---------------------------------------------------------------- routing
\* The three server revisions kept in the repository.
Revisions == {"part_000", "part_001", "importVehicles"}

Route(method, base, kind, handler) ==
  [method |-> method, base |-> base, kind |-> kind, handler |-> handler]

\* The routes each revision registers, in registration order.  kind is
\* "exact" for /api/<base>, "all" for /api/<base>/all, "id" for /api/<base>/:id.
Routes(r) ==
  CASE r = "part_000" ->
         << Route("POST", "vehicles", "exact", "createVehicle"),
            Route("GET", "vehicles", "exact", "listVehicles"),
            Route("DELETE", "vehicles", "all", "deleteAllVehicles"),
            Route("PATCH", "vehicles", "id", "updateMileage"),
            Route("DELETE", "vehicles", "id", "deleteVehicle"),
            Route("DELETE", "services", "all", "deleteAllServices"),
            Route("POST", "services", "exact", "createService"),
            Route("DELETE", "services", "id", "deleteService"),
            Route("GET", "catalog", "exact", "queryCatalog") >>
    [] r = "part_001" ->
         << Route("POST", "vehicles", "exact", "createVehicleRaw"),
            Route("GET", "vehicles", "exact", "listVehiclesRaw") >>
    [] OTHER ->
         << Route("POST", "vehicles", "exact", "createVehicle"),
            Route("GET", "vehicles", "exact", "listVehicles"),
            Route("PATCH", "vehicles", "id", "updateMileage"),
            Route("DELETE", "vehicles", "id", "deleteVehicle"),
            Route("GET", "catalog", "exact", "queryCatalog") >>

AllSeg == <<"a", "l", "l">>

\* Whether a registered route accepts the request line; seg is the path
\* segment after /api/<base>/, <<>> when there is none.
Matches(rt, method, base, seg) ==
  /\ rt.method = method
  /\ rt.base = base
  /\ CASE rt.kind = "exact" -> seg = <<>>
       [] rt.kind = "all" -> seg = AllSeg
       [] OTHER -> seg # <<>>

\* The first registered route that matches handles the request.
Dispatch(r, method, base, seg) ==
  LET rs == Routes(r)
      hit == {i \in 1..Len(rs) : Matches(rs[i], method, base, seg)}
  IN IF hit = {} THEN "none"
     ELSE rs[CHOOSE i \in hit : \A j \in hit : i <= j].handler

\* ------------------------------------------------------------------ store
\* A query parameter as the driver sends it: undefined and null become NULL,
\* a number its decimal text, a string itself.
PgParam(v) ==
  CASE v.t \in {"undefined", "null"} -> Null
    [] v.t = "string" -> v
    [] OTHER -> Str(JsString(v))

\* An INTEGER column reading a parameter: ok is FALSE on a syntax error.
Int4In(p) ==
  IF p.t = "null" THEN [ok |-> TRUE, v |-> Null]
  ELSE IF p.s # <<>> /\ AllDigits(p.s) THEN [ok |-> TRUE, v |-> Num(DecValue(p.s))]
  ELSE IF Len(p.s) > 1 /\ Head(p.s) = "-" /\ AllDigits(Tail(p.s))
       THEN [ok |-> TRUE, v |-> Num(0 - DecValue(Tail(p.s)))]
  ELSE [ok |-> FALSE, v |-> Null]

\* mileage::text
PgText(v) == IF v.t = "number" THEN Str(IntToStr(v.n)) ELSE v

\* Failures of the store that do not depend on the statement.
TransientErrors == {"ECONNRESET"}
Faults == {"none"} \cup TransientErrors
SyntaxError == "22P02"
NotNullViolation == "23502"
ForeignKeyViolation == "23503"

VARIABLES
  rev,          \* the server revision that is running
  vehicles,     \* rows of table vehicles
  services,     \* rows of table service_history
  vehSeq,       \* next value of the vehicles identity sequence
  svcSeq,       \* next value of the service_history identity sequence
  req,          \* the request being answered
  resp,         \* the response sent for it
  console,      \* what the handler wrote with console.error for it
  deletedEver,  \* identifiers DELETE /api/vehicles/:id has reported deleted
  deletedSinceRestart, \* ... since the identity sequence last restarted
  bulkDeleted,  \* a bulk delete succeeded and no vehicle was created since
  catalog,      \* rows of table vehicle_catalog
  catQuery,     \* req.query of the GET /api/catalog being answered
  catResp,      \* the response sent for it
  ingScript,    \* the ingestion script that is running
  ingPc,        \* where it is: startup, loop, trims, done, aborted, crashed, stalled
  ingCount,     \* length of its list: rows of the CSV, makes of the API
  ingYear,      \* year of the loop
  ingIdx,       \* index into the list: row, make
  ingModels,    \* number of models found for the current make and year
  ingTrims,     \* models of the current make and year whose trims were fetched
  ingLog,       \* the rows, or make-year pairs, attempted so far, in order
  ingFailed,    \* some item has failed
  gjPc,         \* getJson: idle, attempt, sleeping, returned, thrown
  gjTries,      \* its parameter tries
  gjI,          \* its loop variable i
  gjAttempts,   \* fetches started
  gjErrors,     \* the errors caught, in order
  gjSleeps,     \* the delays slept, in order, in milliseconds
  gjResult,     \* what the call settled with
  mdResults,    \* the Model_Name of each result of the models API, in order
  mdFn,         \* the function that was given them
  mdModels,     \* the list of models it returned
  ckPc,         \* the converter's stream: off, reading, ended, failed
  ckRead,       \* data rows the stream has delivered
  chunkIndex,   \* number of the next chunk file
  ckRows,       \* the buffer rows: value tuples waiting to be written; tuple k is that of row k
  ckFiles       \* the chunk files written, by number

serverVars == << rev, vehicles, services, vehSeq, svcSeq, req, resp, console,
                 deletedEver, deletedSinceRestart, bulkDeleted >>
catalogVars == << catalog, catQuery, catResp >>
\* What the vehicle and service handlers never touch.
ingestVars == << ingScript, ingPc, ingCount, ingYear, ingIdx, ingModels, ingTrims,
                 ingLog, ingFailed >>
retryVars == << gjPc, gjTries, gjI, gjAttempts, gjErrors, gjSleeps, gjResult >>
modelsVars == << mdResults, mdFn, mdModels >>
chunkVars == << ckPc, ckRead, chunkIndex, ckRows, ckFiles >>
otherVars == << catalogVars, ingestVars, retryVars, modelsVars, chunkVars >>
vars == << serverVars, otherVars >>

\* What one statement did: err is "" or the error thrown by pool.query; the
\* tables and sequences are as the statement leaves them; rows is the result
\* set and rowCount the number of rows affected.
QErr(e) ==
  [err |-> e, vehicles |-> vehicles, services |-> services,
   vehSeq |-> vehSeq, svcSeq |-> svcSeq, rows |-> <<>>, rowCount |-> 0]
QOk(vs, ss, vq, sq, rows, n) ==
  [err |-> "", vehicles |-> vs, services |-> ss,
   vehSeq |-> vq, svcSeq |-> sq, rows |-> rows, rowCount |-> n]

\* RETURNING id, year, make, model, mileage::text, created_at
ReturningText(r) == [r EXCEPT !.mileage = PgText(r.mileage)]

\* ORDER BY id DESC
RECURSIVE OrderByIdDesc(_)
OrderByIdDesc(S) ==
  IF S = {} THEN <<>>
  ELSE LET top == CHOOSE r \in S : \A q \in S : q.id <= r.id
       IN <<top>> \o OrderByIdDesc(S \ {top})

\* The rows of S in every order a scan without ORDER BY may produce.
Orderings(S) ==
  {f \in [1..Cardinality(S) -> S] : \A i, j \in 1..Cardinality(S) : i # j => f[i] # f[j]}

\* A faulty identity: the lowest identifier no row holds.
LowestFreeVehicleId == CHOOSE i \in 1..(Cardinality(vehicles) + 1) : \A r \in vehicles : r.id # i
\* The identifier the identity sequence gives the next row; TRUNCATE ...
\* RESTART IDENTITY is what sets the sequence back.
NextVehicleId == vehSeq

\* INSERT INTO vehicles (year, make, model, mileage) VALUES ($1, $2, $3, $4)
InsertVehicle(year, make, model, mileage, fault) ==
  LET y == Int4In(PgParam(year))
      m == Int4In(PgParam(mileage))
      mk == PgParam(make)
      md == PgParam(model)
      row == [id |-> NextVehicleId, year |-> y.v, make |-> mk, model |-> md, mileage |-> m.v]
  IN IF fault # "none" THEN QErr(fault)
     ELSE IF ~y.ok \/ ~m.ok THEN QErr(SyntaxError)
     ELSE IF y.v = Null \/ mk = Null \/ md = Null THEN QErr(NotNullViolation)
     ELSE QOk(vehicles \cup {row}, services, vehSeq + 1, svcSeq, <<row>>, 1)

\* SELECT ... FROM vehicles
SelectVehicles(fault) ==
  IF fault # "none" THEN QErr(fault)
  ELSE QOk(vehicles, services, vehSeq, svcSeq, OrderByIdDesc(vehicles), Cardinality(vehicles))

\* A faulty update: the WHERE clause is lost.
UpdateEveryRow(vs, i, m) == {[r EXCEPT !.mileage = m] : r \in vs}
\* SET mileage = $1 WHERE id = $2 applied to the table vs.
UpdateRows(vs, i, m) ==
  {IF r.id = i THEN [r EXCEPT !.mileage = m] ELSE r : r \in vs}

\* UPDATE vehicles SET mileage = $1 WHERE id = $2 RETURNING ...
UpdateMileage(miles, id, fault) ==
  LET m == Int4In(PgParam(miles))
      i == Int4In(PgParam(id))
      hit == {r \in vehicles : i.v = Num(r.id)}
      after == UpdateRows(vehicles, i.v.n, m.v)
  IN IF fault # "none" THEN QErr(fault)
     ELSE IF ~m.ok \/ ~i.ok THEN QErr(SyntaxError)
     ELSE QOk(after, services, vehSeq, svcSeq,
              OrderByIdDesc({r \in after : i.v = Num(r.id)}), Cardinality(hit))

\* A faulty constraint: nothing is held to reference a vehicle.
ReferencingNone(ss, i) == {}
\* ON DELETE RESTRICT: the rows of service_history that still reference i.
Referencing(ss, i) == {s \in ss : s.vehicle_id = i}

\* DELETE FROM vehicles WHERE id = $1
DeleteVehicleRow(id, fault) ==
  LET i == Int4In(PgParam(id))
      hit == {r \in vehicles : i.v = Num(r.id)}
  IN IF fault # "none" THEN QErr(fault)
     ELSE IF ~i.ok THEN QErr(SyntaxError)
     ELSE IF \E r \in hit : Referencing(services, r.id) # {} THEN QErr(ForeignKeyViolation)
     ELSE QOk(vehicles \ hit, services, vehSeq, svcSeq, <<>>, Cardinality(hit))

\* TRUNCATE TABLE vehicles RESTART IDENTITY CASCADE
TruncateVehicles(fault) ==
  IF fault # "none" THEN QErr(fault)
  ELSE QOk({}, {}, 1, 1, <<>>, 0)

\* TRUNCATE TABLE service_history RESTART IDENTITY CASCADE
TruncateServices(fault) ==
  IF fault # "none" THEN QErr(fault)
  ELSE QOk(vehicles, {}, vehSeq, 1, <<>>, 0)

\* INSERT INTO service_history (vehicle_id, service_name, mileage, ...)
InsertService(vehicle_id, service_name, mileage, fault) ==
  LET v == Int4In(PgParam(vehicle_id))
      m == Int4In(PgParam(mileage))
      row == [id |-> svcSeq, vehicle_id |-> v.v.n,
              service_name |-> PgParam(service_name), mileage |-> m.v]
  IN IF fault # "none" THEN QErr(fault)
     ELSE IF ~v.ok \/ ~m.ok THEN QErr(SyntaxError)
     ELSE IF v.v = Null THEN QErr(NotNullViolation)
     ELSE IF ~\E r \in vehicles : r.id = v.v.n THEN QErr(ForeignKeyViolation)
     ELSE QOk(vehicles, services \cup {row}, vehSeq, svcSeq + 1, <<row>>, 1)

\* DELETE FROM service_history WHERE id = $1
DeleteServiceRow(id, fault) ==
  LET i == Int4In(PgParam(id))
      hit == {s \in services : i.v = Num(s.id)}
  IN IF fault # "none" THEN QErr(fault)
     ELSE IF ~i.ok THEN QErr(SyntaxError)
     ELSE QOk(vehicles, services \ hit, vehSeq, svcSeq, <<>>, Cardinality(hit))

\* ----------------------------------------------------------- HTTP messages
Body(year, make, model, mileage, vehicle_id, service_name) ==
  [year |-> year, make |-> make, model |-> model, mileage |-> mileage,
   vehicle_id |-> vehicle_id, service_name |-> service_name]
NoBody == Body(Undefined, Undefined, Undefined, Undefined, Undefined, Undefined)

Request(method, base, seg, body) ==
  [method |-> method, base |-> base, seg |-> seg, body |-> body]

\* status, the body's error text ("" when it has none), the rows it carries
\* and its deletedId (<<>> when it has none).
Response(handler, status, error, rows, deletedId) ==
  [handler |-> handler, status |-> status, error |-> error, rows |-> rows,
   deletedId |-> deletedId]

\* Client inputs.
MileageInputs ==
  {Undefined, Num(0 - 5), Str(<<"a", "b", "c">>), Str(<<"1", "a", "2">>)}
Year2020 == Num(2020)
Honda == Str(<<"Honda">>)
Civic == Str(<<"Civic">>)
VehicleFields ==
  { <<Year2020, Honda, Civic>>, <<Undefined, Honda, Civic>>,
    <<Year2020, Str(<<>>), Civic>>, <<Year2020, Honda, Undefined>> }
IdSegs == {NatToStr(i) : i \in 1..(MaxId + 1)} \cup {AllSeg}
OilChange == Str(<<"Oil change">>)
ServiceFields ==
  {<<Num(i), OilChange>> : i \in 1..(MaxId + 1)}
    \cup {<<Undefined, OilChange>>, <<Num(1), Undefined>>}

\* ---------------------------------------------------------------- handlers
\* The handler sends rs for rq, having run the statement with outcome q and
\* written logged to the console.
Send(rq, rs, q, logged) ==
  /\ req' = rq
  /\ resp' = rs
  /\ console' = logged
  /\ vehicles' = q.vehicles
  /\ services' = q.services
  /\ vehSeq' = q.vehSeq
  /\ svcSeq' = q.svcSeq
  /\ rev' = rev
  /\ UNCHANGED otherVars

\* No exchange is open: the previous response has been written out.
NoRequest == Request("none", "none", <<>>, NoBody)
NoResponse == Response("none", 0, "", <<>>, <<>>)
Idle == resp = NoResponse

NoQuery == QOk(vehicles, services, vehSeq, svcSeq, <<>>, 0)

\* app.post("/api/vehicles") of part_000 and of importVehicles.js
CreateVehicle ==
  \E f \in VehicleFields, mileage \in MileageInputs, fault \in Faults :
    LET body == Body(f[1], f[2], f[3], mileage, Undefined, Undefined)
        rq == Request("POST", "vehicles", <<>>, body)
        h == Dispatch(rev, "POST", "vehicles", <<>>)
        miles == OrElse(DigitsNumber(body.mileage), Num(0))
        q == InsertVehicle(ToNumber(body.year), body.make, body.model, miles, fault)
    IN /\ Idle
       /\ h = "createVehicle"
       /\ UNCHANGED << deletedEver, deletedSinceRestart >>
       /\ IF ~Truthy(body.year) \/ ~Truthy(body.make) \/ ~Truthy(body.model)
          THEN /\ Send(rq, Response(h, 400, "year, make, and model are required", <<>>, <<>>),
                       NoQuery, <<>>)
               /\ UNCHANGED bulkDeleted
          ELSE IF q.err # ""
          THEN /\ Send(rq, Response(h, 500, "Failed to save vehicle", <<>>, <<>>),
                       q, <<q.err>>)
               /\ UNCHANGED bulkDeleted
          ELSE /\ vehSeq <= MaxId
               /\ Send(rq, Response(h, 201, "", <<ReturningText(q.rows[1])>>, <<>>), q, <<>>)
               /\ bulkDeleted' = FALSE

\* app.post("/api/vehicles") of part_001
CreateVehicleRaw ==
  \E f \in VehicleFields, mileage \in MileageInputs, fault \in Faults :
    LET body == Body(f[1], f[2], f[3], mileage, Undefined, Undefined)
        rq == Request("POST", "vehicles", <<>>, body)
        h == Dispatch(rev, "POST", "vehicles", <<>>)
        q == InsertVehicle(body.year, body.make, body.model, body.mileage, fault)
    IN /\ Idle
       /\ h = "createVehicleRaw"
       /\ UNCHANGED << deletedEver, deletedSinceRestart >>
       /\ IF q.err # ""
          THEN /\ Send(rq, Response(h, 500, "Failed to save vehicle", <<>>, <<>>),
                       q, <<q.err>>)
               /\ UNCHANGED bulkDeleted
          ELSE /\ vehSeq <= MaxId
               /\ Send(rq, Response(h, 201, "", q.rows, <<>>), q, <<>>)
               /\ bulkDeleted' = FALSE

\* app.get("/api/vehicles") of part_000 and of importVehicles.js
ListVehicles ==
  \E fault \in Faults :
    LET rq == Request("GET", "vehicles", <<>>, NoBody)
        h == Dispatch(rev, "GET", "vehicles", <<>>)
        q == SelectVehicles(fault)
        rows == [i \in 1..Len(q.rows) |-> ReturningText(q.rows[i])]
    IN /\ Idle
       /\ h = "listVehicles"
       /\ UNCHANGED << deletedEver, deletedSinceRestart, bulkDeleted >>
       /\ IF q.err # ""
          THEN Send(rq, Response(h, 500, "Failed to fetch vehicles", <<>>, <<>>), q, <<q.err>>)
          ELSE Send(rq, Response(h, 200, "", rows, <<>>), q, <<>>)

\* app.get("/api/vehicles") of part_001: SELECT * FROM vehicles, no ORDER BY
ListVehiclesRaw ==
  \E fault \in Faults, rows \in Orderings(vehicles) :
    LET rq == Request("GET", "vehicles", <<>>, NoBody)
        h == Dispatch(rev, "GET", "vehicles", <<>>)
        q == SelectVehicles(fault)
    IN /\ Idle
       /\ h = "listVehiclesRaw"
       /\ UNCHANGED << deletedEver, deletedSinceRestart, bulkDeleted >>
       /\ IF q.err # ""
          THEN Send(rq, Response(h, 500, "Failed to fetch vehicles", <<>>, <<>>), q, <<q.err>>)
          ELSE Send(rq, Response(h, 200, "", rows, <<>>), q, <<>>)

\* app.delete("/api/vehicles/all")
DeleteAllVehicles ==
  \E fault \in Faults :
    LET rq == Request("DELETE", "vehicles", AllSeg, NoBody)
        h == Dispatch(rev, "DELETE", "vehicles", AllSeg)
        q == TruncateVehicles(fault)
    IN /\ Idle
       /\ h = "deleteAllVehicles"
       /\ UNCHANGED deletedEver
       /\ IF q.err # ""
          THEN /\ Send(rq, Response(h, 500, q.err, <<>>, <<>>), q, <<q.err>>)
               /\ UNCHANGED << deletedSinceRestart, bulkDeleted >>
          ELSE /\ Send(rq, Response(h, 200, "", <<>>, <<>>), q, <<>>)
               /\ deletedSinceRestart' = {}
               /\ bulkDeleted' = TRUE

\* app.patch("/api/vehicles/:id")
UpdateVehicle ==
  \E seg \in IdSegs, mileage \in MileageInputs, fault \in Faults :
    LET body == Body(Undefined, Undefined, Undefined, mileage, Undefined, Undefined)
        rq == Request("PATCH", "vehicles", seg, body)
        h == Dispatch(rev, "PATCH", "vehicles", seg)
        miles == DigitsNumber(body.mileage)
        q == UpdateMileage(miles, Str(seg), fault)
    IN /\ Idle
       /\ h = "updateMileage"
       /\ UNCHANGED << deletedEver, deletedSinceRestart, bulkDeleted >>
       /\ IF IsNaN(miles)
          THEN Send(rq, Response(h, 400, "Mileage must be a number", <<>>, <<>>), NoQuery, <<>>)
          ELSE IF q.err # ""
          THEN Send(rq, Response(h, 500, "Failed to update vehicle", <<>>, <<>>), q, <<q.err>>)
          ELSE IF Len(q.rows) = 0
          THEN Send(rq, Response(h, 404, "Vehicle not found", <<>>, <<>>), q, <<>>)
          ELSE Send(rq, Response(h, 200, "", <<ReturningText(q.rows[1])>>, <<>>), q, <<>>)

\* app.delete("/api/vehicles/:id")
DeleteVehicle ==
  \E seg \in IdSegs, fault \in Faults :
    LET rq == Request("DELETE", "vehicles", seg, NoBody)
        h == Dispatch(rev, "DELETE", "vehicles", seg)
        q == DeleteVehicleRow(Str(seg), fault)
        deletedId == Int4In(PgParam(Str(seg))).v.n
    IN /\ Idle
       /\ h = "deleteVehicle"
       /\ UNCHANGED bulkDeleted
       /\ IF q.err # ""
          THEN /\ Send(rq, Response(h, 500, "Failed to delete vehicle", <<>>, <<>>), q, <<q.err>>)
               /\ UNCHANGED << deletedEver, deletedSinceRestart >>
          ELSE IF q.rowCount = 0
          THEN /\ Send(rq, Response(h, 404, "Vehicle not found", <<>>, <<>>), q, <<>>)
               /\ UNCHANGED << deletedEver, deletedSinceRestart >>
          ELSE /\ Send(rq, Response(h, 200, "", <<>>, seg), q, <<>>)
               /\ deletedEver' = deletedEver \cup {deletedId}
               /\ deletedSinceRestart' = deletedSinceRestart \cup {deletedId}

\* app.delete("/api/services/all")
DeleteAllServices ==
  \E fault \in Faults :
    LET rq == Request("DELETE", "services", AllSeg, NoBody)
        h == Dispatch(rev, "DELETE", "services", AllSeg)
        q == TruncateServices(fault)
    IN /\ Idle
       /\ h = "deleteAllServices"
       /\ UNCHANGED << deletedEver, deletedSinceRestart, bulkDeleted >>
       /\ IF q.err # ""
          THEN Send(rq, Response(h, 500, q.err, <<>>, <<>>), q, <<q.err>>)
          ELSE Send(rq, Response(h, 200, "", <<>>, <<>>), q, <<>>)

\* app.post("/api/services")
CreateService ==
  \E f \in ServiceFields, mileage \in MileageInputs, fault \in Faults :
    LET body == Body(Undefined, Undefined, Undefined, mileage, f[1], f[2])
        rq == Request("POST", "services", <<>>, body)
        h == Dispatch(rev, "POST", "services", <<>>)
        q == InsertService(body.vehicle_id, body.service_name, body.mileage, fault)
    IN /\ Idle
       /\ h = "createService"
       /\ UNCHANGED << deletedEver, deletedSinceRestart, bulkDeleted >>
       /\ IF ~Truthy(body.vehicle_id) \/ ~Truthy(body.service_name)
          THEN Send(rq, Response(h, 400, "vehicle_id and service_name are required", <<>>, <<>>),
                    NoQuery, <<>>)
          ELSE IF q.err # ""
          THEN Send(rq, Response(h, 500, "Failed to create service record", <<>>, <<>>),
                    q, <<q.err>>)
          ELSE /\ svcSeq <= MaxSvc
               /\ Send(rq, Response(h, 201, "", q.rows, <<>>), q, <<>>)

\* app.delete("/api/services/:id")
DeleteService ==
  \E seg \in IdSegs, fault \in Faults :
    LET rq == Request("DELETE", "services", seg, NoBody)
        h == Dispatch(rev, "DELETE", "services", seg)
        q == DeleteServiceRow(Str(seg), fault)
    IN /\ Idle
       /\ h = "deleteService"
       /\ UNCHANGED << deletedEver, deletedSinceRestart, bulkDeleted >>
       /\ IF q.err # ""
          THEN Send(rq, Response(h, 500, "Failed to delete service record", <<>>, <<>>),
                    q, <<q.err>>)
          ELSE IF q.rowCount = 0
          THEN Send(rq, Response(h, 404, "Service record not found", <<>>, <<>>), q, <<>>)
          ELSE Send(rq, Response(h, 200, "", <<>>, seg), q, <<>>)

\* The response has been written out and the exchange is over; the tables
\* stay as the handler left them.
Finish ==
  /\ ~Idle
  /\ req' = NoRequest
  /\ resp' = NoResponse
  /\ console' = <<>>
  /\ UNCHANGED << rev, vehicles, services, vehSeq, svcSeq,
                  deletedEver, deletedSinceRestart, bulkDeleted >>
  /\ UNCHANGED otherVars

\* ------------------------------------------------------------ specification
\* The server has started on empty tables and has answered nothing yet.
ServerInit ==
  /\ rev \in Revisions
  /\ vehicles = {}
  /\ services = {}
  /\ vehSeq = 1
  /\ svcSeq = 1
  /\ req = NoRequest
  /\ resp = NoResponse
  /\ console = <<>>
  /\ deletedEver = {}
  /\ deletedSinceRestart = {}
  /\ bulkDeleted = FALSE

\* The catalog table is empty and no catalog query has been answered.
NoCatalogQuery == [year |-> Undefined, make |-> Undefined, model |-> Undefined]
NoCatalogResponse == [status |-> 0, rows |-> {}]
CatalogOff ==
  /\ catalog = {}
  /\ catQuery = NoCatalogQuery
  /\ catResp = NoCatalogResponse

\* No ingestion script is running.
IngestOff ==
  /\ ingScript = "none"
  /\ ingPc = "done"
  /\ ingCount = 0
  /\ ingYear = 0
  /\ ingIdx = 0
  /\ ingModels = 0
  /\ ingTrims = <<>>
  /\ ingLog = <<>>
  /\ ingFailed = FALSE

\* getJson has not been called.
RetryOff ==
  /\ gjPc = "idle"
  /\ gjTries = 0
  /\ gjI = 0
  /\ gjAttempts = 0
  /\ gjErrors = <<>>
  /\ gjSleeps = <<>>
  /\ gjResult = [kind |-> "pending"]

\* No list of models has been asked for.
ModelsOff ==
  /\ mdResults = <<>>
  /\ mdFn = "none"
  /\ mdModels = <<>>

\* let chunkIndex = 1; let rows = []; no file is written.
ChunkStart ==
  /\ ckRead = 0
  /\ chunkIndex = 1
  /\ ckRows = <<>>
  /\ ckFiles = <<>>

\* The converter is not running.
ChunkOff ==
  /\ ckPc = "off"
  /\ ChunkStart

Init ==
  /\ ServerInit
  /\ CatalogOff
  /\ IngestOff
  /\ RetryOff
  /\ ModelsOff
  /\ ChunkOff

Next ==
  \/ CreateVehicle
  \/ CreateVehicleRaw
  \/ ListVehicles
  \/ ListVehiclesRaw
  \/ DeleteAllVehicles
  \/ UpdateVehicle
  \/ DeleteVehicle
  \/ DeleteAllServices
  \/ CreateService
  \/ DeleteService
  \/ Finish

Spec == Init /\ [][Next]_vars

\* ----------------------------------------------------------------- catalog
\* LIMIT 50000
CatalogLimit == 50000

UpperCase == <<"A", "B", "C", "D", "E", "F", "G", "H", "I", "J", "K", "L", "M",
               "N", "O", "P", "Q", "R", "S", "T", "U", "V", "W", "X", "Y", "Z">>
LowerCase == <<"a", "b", "c", "d", "e", "f", "g", "h", "i", "j", "k", "l", "m",
               "n", "o", "p", "q", "r", "s", "t", "u", "v", "w", "x", "y", "z">>
Lower(c) ==
  IF \E i \in 1..26 : UpperCase[i] = c
  THEN LowerCase[CHOOSE i \in 1..26 : UpperCase[i] = c]
  ELSE c
LowerSeq(s) == [i \in 1..Len(s) |-> Lower(s[i])]

\* s LIKE p: in the pattern % stands for any run of characters and _ for
\* any one character.
RECURSIVE Like(_, _)
Like(p, s) ==
  IF p = <<>> THEN s = <<>>
  ELSE IF Head(p) = "%" THEN Like(Tail(p), s) \/ (s # <<>> /\ Like(p, Tail(s)))
  ELSE IF s = <<>> THEN FALSE
  ELSE (Head(p) = "_" \/ Head(p) = Head(s)) /\ Like(Tail(p), Tail(s))

\* s ILIKE p
ILike(p, s) == Like(LowerSeq(p), LowerSeq(s))

\* `%${text}%`
Wrapped(v) == Str(<<"%">> \o JsString(v) \o <<"%">>)

\* One condition of the WHERE clause: column, operator and the position $pos
\* of its parameter.
Condition(col, op, pos) == [col |-> col, op |-> op, pos |-> pos]

\* Whether row r satisfies condition c under the parameters vals.
Holds(c, vals, r) ==
  IF c.op = "="
  THEN Num(r[c.col]) = Int4In(PgParam(vals[c.pos])).v
  ELSE ILike(PgParam(vals[c.pos]).s, r[c.col])

\* SELECT ... FROM vehicle_catalog WHERE <conds joined by AND> ORDER BY ...
\* LIMIT 50000; err is "" or the error thrown by pool.query.
SelectCatalog(conds, vals, fault) ==
  LET bad == \E k \in 1..Len(conds) :
               conds[k].op = "=" /\ ~Int4In(PgParam(vals[conds[k].pos])).ok
      hit == {r \in catalog : \A k \in 1..Len(conds) : Holds(conds[k], vals, r)}
      kept == IF Cardinality(hit) <= CatalogLimit THEN hit
              ELSE CHOOSE S \in SUBSET hit : Cardinality(S) = CatalogLimit
  IN IF fault # "none" THEN [err |-> fault, rows |-> {}]
     ELSE IF bad THEN [err |-> SyntaxError, rows |-> {}]
     ELSE [err |-> "", rows |-> kept]

\* Client inputs: req.query holds strings, or nothing for an absent key.
YearQueries == {Undefined, Str(<<"2", "0", "2", "0">>), Str(<<"a", "b", "c">>)}
MakeQueries ==
  {Undefined, Str(<<"t", "o">>), Str(<<"O">>), Str(<<"x">>), Str(<<"_", "o">>), Str(<<"%">>)}
ModelQueries == {Undefined, Str(<<"c", "I">>), Str(<<"_">>)}
CatalogRow(y, mk, md) == [year |-> y, make |-> mk, model |-> md]
CatalogRows ==
  { CatalogRow(2020, <<"T", "o">>, <<"C", "i">>), CatalogRow(2021, <<"T", "o">>, <<"F", "i">>),
    CatalogRow(2020, <<"F", "o">>, <<"F", "i">>), CatalogRow(2021, <<"F", "o">>, <<"C", "i">>) }

\* app.get("/api/catalog")
QueryCatalog ==
  \E year \in YearQueries, make \in MakeQueries, model \in ModelQueries, fault \in Faults :
    LET h == Dispatch(rev, "GET", "catalog", <<>>)
        c1 == IF Truthy(year) THEN <<Condition("year", "=", 1)>> ELSE <<>>
        v1 == IF Truthy(year) THEN <<ToNumber(year)>> ELSE <<>>
        c2 == IF Truthy(make) THEN Append(c1, Condition("make", "ILIKE", Len(c1) + 1)) ELSE c1
        v2 == IF Truthy(make) THEN Append(v1, Wrapped(make)) ELSE v1
        c3 == IF Truthy(model) THEN Append(c2, Condition("model", "ILIKE", Len(c2) + 1)) ELSE c2
        v3 == IF Truthy(model) THEN Append(v2, Wrapped(model)) ELSE v2
        q == SelectCatalog(c3, v3, fault)
    IN /\ h = "queryCatalog"
       /\ catQuery' = [year |-> year, make |-> make, model |-> model]
       /\ catResp' = IF q.err # "" THEN [status |-> 500, rows |-> {}]
                     ELSE [status |-> 200, rows |-> q.rows]
       /\ UNCHANGED << catalog, serverVars, ingestVars, retryVars, modelsVars, chunkVars >>

\* The catalog table as the ingestion left it; the server answers catalog
\* queries only.
CatalogInit ==
  /\ ServerInit
  /\ catalog \in SUBSET CatalogRows
  /\ catQuery = NoCatalogQuery
  /\ catResp = NoCatalogResponse
  /\ IngestOff
  /\ RetryOff
  /\ ModelsOff
  /\ ChunkOff

CatalogNext == QueryCatalog

CatalogSpec == CatalogInit /\ [][CatalogNext]_vars

\* --------------------------------------------------------------- ingestion
\* importCSV of importVehicles.js, main of csv_to_sql.js (the catalog
\* generator) and exportCatalog of importVehicles.js.
Scripts == {"importCSV", "generateCatalog", "exportCatalog"}

\* The years in the order the script walks them: the generator counts down
\* from END_YEAR, the exporter up from START_YEAR.
FirstYear(s) == IF s = "generateCatalog" THEN MaxYears ELSE 1
NextYear(s, y) == IF s = "generateCatalog" THEN y - 1 ELSE y + 1
YearInRange(y) == 1 <= y /\ y <= MaxYears

\* What an unhandled promise rejection does to the process: it ends it, or
\* it only warns and the process stays with its loop abandoned.
UnhandledRejection == {"crashed", "stalled"}

\* The loop moves on to the next make, and to the next year after the last.
Advance ==
  /\ IF ingIdx < ingCount
     THEN ingIdx' = ingIdx + 1 /\ ingYear' = ingYear /\ ingPc' = "loop"
     ELSE /\ ingIdx' = 1
          /\ ingYear' = NextYear(ingScript, ingYear)
          /\ ingPc' = IF YearInRange(NextYear(ingScript, ingYear)) /\ ingCount > 0
                       THEN "loop" ELSE "done"

\* pool.connect() and the read of the file; getAllMakes(); writeCsvHeader()
\* and getMakeIdMap(): when one fails nothing catches it before the loop.
IngestStart ==
  \E ok \in BOOLEAN, n \in 0..MaxList :
    /\ ingPc = "startup"
    /\ ingCount' = IF ok THEN n ELSE 0
    /\ ingYear' = FirstYear(ingScript)
    /\ ingIdx' = 1
    /\ ingPc' = IF ~ok THEN "aborted"
                 ELSE IF n = 0 THEN "done"
                 ELSE "loop"
    /\ UNCHANGED << ingScript, ingModels, ingTrims, ingLog, ingFailed >>
    /\ UNCHANGED << serverVars, catalogVars, retryVars, modelsVars, chunkVars >>

\* for (const row of rows) await client.query(INSERT ...), inside the async
\* "end" callback: a rejected query rejects the callback, which nothing awaits.
ImportRow ==
  \E ok \in BOOLEAN, fate \in UnhandledRejection :
    /\ ingScript = "importCSV"
    /\ ingPc = "loop"
    /\ ingLog' = Append(ingLog, ingIdx)
    /\ ingFailed' = (ingFailed \/ ~ok)
    /\ IF ok
       THEN /\ ingIdx' = ingIdx + 1
            /\ ingPc' = IF ingIdx < ingCount THEN "loop" ELSE "done"
       ELSE /\ ingIdx' = ingIdx
            /\ ingPc' = fate
    /\ UNCHANGED << ingScript, ingCount, ingYear, ingModels, ingTrims >>
    /\ UNCHANGED << serverVars, catalogVars, retryVars, modelsVars, chunkVars >>

\* try { models = await getModelsForMakeYear(make, year); ... } catch (e)
\* { console.warn(...) } for one make of one year.
GenerateItem ==
  \E ok \in BOOLEAN :
    /\ ingScript = "generateCatalog"
    /\ ingPc = "loop"
    /\ ingLog' = Append(ingLog, <<ingYear, ingIdx>>)
    /\ ingFailed' = (ingFailed \/ ~ok)
    /\ Advance
    /\ UNCHANGED << ingScript, ingCount, ingModels, ingTrims >>
    /\ UNCHANGED << serverVars, catalogVars, retryVars, modelsVars, chunkVars >>

\* models = await getModelsForMakeId(make.id, year), which returns [] when
\* its fetch fails; no models: continue.
ExportModels ==
  \E ok \in BOOLEAN, k \in 0..MaxModels :
    LET models == IF ok THEN k ELSE 0
    IN /\ ingScript = "exportCatalog"
       /\ ingPc = "loop"
       /\ ingLog' = Append(ingLog, <<ingYear, ingIdx>>)
       /\ ingFailed' = (ingFailed \/ ~ok)
       /\ ingModels' = models
       /\ ingTrims' = <<>>
       /\ IF models = 0
          THEN Advance
          ELSE /\ ingPc' = "trims"
               /\ UNCHANGED << ingYear, ingIdx >>
       /\ UNCHANGED << ingScript, ingCount >>
       /\ UNCHANGED << serverVars, catalogVars, retryVars, modelsVars, chunkVars >>

\* for (const model of models): trims = await getTrimData(...), which returns
\* one blank trim when its fetch fails; the rows are appended to the file.
ExportTrim ==
  \E ok \in BOOLEAN :
    LET j == Len(ingTrims) + 1
    IN /\ ingScript = "exportCatalog"
       /\ ingPc = "trims"
       /\ ingFailed' = (ingFailed \/ ~ok)
       /\ ingTrims' = Append(ingTrims, j)
       /\ IF j < ingModels
          THEN UNCHANGED << ingPc, ingYear, ingIdx >>
          ELSE Advance
       /\ UNCHANGED << ingScript, ingCount, ingLog, ingModels >>
       /\ UNCHANGED << serverVars, catalogVars, retryVars, modelsVars, chunkVars >>

IngestInit ==
  /\ ServerInit
  /\ rev = "part_000"
  /\ CatalogOff
  /\ ingScript \in Scripts
  /\ ingPc = "startup"
  /\ ingCount = 0
  /\ ingYear = 0
  /\ ingIdx = 0
  /\ ingModels = 0
  /\ ingTrims = <<>>
  /\ ingLog = <<>>
  /\ ingFailed = FALSE
  /\ RetryOff
  /\ ModelsOff
  /\ ChunkOff

IngestNext ==
  \/ IngestStart
  \/ ImportRow
  \/ GenerateItem
  \/ ExportModels
  \/ ExportTrim

IngestSpec == IngestInit /\ [][IngestNext]_vars

\* ------------------------------------------------------------------ getJson
\* What a fetch can fail with: a rejected fetch, a response that is not ok.
FetchErrors == {"fetch failed", "HTTP 500"}

\* A delay that does not grow with the attempt.
BackoffFlat(i) == 300

\* sleep(300 + i * 300)
Backoff(i) == 300 + i * 300

\* The test of the for loop, at entry and after i++: the body runs again, or
\* the function ends without a return statement.
LoopTest(i, tries) ==
  IF i < tries
  THEN gjPc' = "attempt" /\ gjResult' = gjResult
  ELSE gjPc' = "returned" /\ gjResult' = [kind |-> "undefined"]

\* getJson(url, tries): let i = 0 and the first test of the loop.
GetJsonCall ==
  \E tries \in 0..MaxTries :
    /\ gjPc = "idle"
    /\ gjTries' = tries
    /\ gjI' = 0
    /\ LoopTest(0, tries)
    /\ UNCHANGED << gjAttempts, gjErrors, gjSleeps >>
    /\ UNCHANGED << serverVars, catalogVars, ingestVars, modelsVars, chunkVars >>

\* The body of the loop: the fetch and, when it fails, the catch block up to
\* the call of sleep.
GetJsonAttempt ==
  \E ok \in BOOLEAN, e \in FetchErrors :
    /\ gjPc = "attempt"
    /\ gjAttempts' = gjAttempts + 1
    /\ IF ok
       THEN /\ gjPc' = "returned"
            /\ gjResult' = [kind |-> "json"]
            /\ UNCHANGED << gjErrors, gjSleeps >>
       ELSE /\ gjErrors' = Append(gjErrors, e)
            /\ IF gjI = gjTries - 1
               THEN /\ gjPc' = "thrown"
                    /\ gjResult' = [kind |-> "error", e |-> e]
                    /\ UNCHANGED gjSleeps
               ELSE /\ gjPc' = "sleeping"
                    /\ gjSleeps' = Append(gjSleeps, Backoff(gjI))
                    /\ UNCHANGED gjResult
    /\ UNCHANGED << gjTries, gjI >>
    /\ UNCHANGED << serverVars, catalogVars, ingestVars, modelsVars, chunkVars >>

\* The sleep is over: i++ and the test of the loop.
GetJsonWake ==
  /\ gjPc = "sleeping"
  /\ gjI' = gjI + 1
  /\ LoopTest(gjI + 1, gjTries)
  /\ UNCHANGED << gjTries, gjAttempts, gjErrors, gjSleeps >>
  /\ UNCHANGED << serverVars, catalogVars, ingestVars, modelsVars, chunkVars >>

RetryInit ==
  /\ ServerInit
  /\ rev = "part_000"
  /\ CatalogOff
  /\ IngestOff
  /\ RetryOff
  /\ ModelsOff
  /\ ChunkOff

RetryNext ==
  \/ GetJsonCall
  \/ GetJsonAttempt
  \/ GetJsonWake

RetrySpec == RetryInit /\ [][RetryNext]_vars

\* ------------------------------------------------------------ model lists
\* s.trim()
RECURSIVE TrimStart(_)
TrimStart(s) == IF s # <<>> /\ Head(s) = " " THEN TrimStart(Tail(s)) ELSE s
RECURSIVE TrimEnd(_)
TrimEnd(s) ==
  IF s # <<>> /\ s[Len(s)] = " " THEN TrimEnd(SubSeq(s, 1, Len(s) - 1)) ELSE s
Trim(s) == TrimEnd(TrimStart(s))

\* s.replace(/\s+/g, " ")
RECURSIVE CollapseSpaces(_)
CollapseSpaces(s) ==
  IF Len(s) < 2 THEN s
  ELSE IF s[1] = " " /\ s[2] = " " THEN CollapseSpaces(Tail(s))
  ELSE <<s[1]>> \o CollapseSpaces(Tail(s))

\* normalize(val): String(val ?? "").trim().replace(/\s+/g, " ")
Normalize(val) == CollapseSpaces(Trim(JsString(Coalesce(val, Str(<<>>)))))

\* The loop of getModelsForMakeYear: m = (r?.Model_Name || "").trim(), an
\* empty m is skipped, m is pushed unless its lower-case key was seen.
RECURSIVE SeenLoop(_, _, _)
SeenLoop(results, seen, models) ==
  IF results = <<>> THEN models
  ELSE LET m == Trim(OrElse(Head(results), Str(<<>>)).s)
           key == LowerSeq(m)
       IN IF m = <<>> \/ key \in seen
          THEN SeenLoop(Tail(results), seen, models)
          ELSE SeenLoop(Tail(results), seen \cup {key}, Append(models, m))

\* [...new Set(list)]: the values in the order they were first inserted,
\* two strings being the same value when they are the same string.
RECURSIVE NewSet(_, _)
NewSet(list, kept) ==
  IF list = <<>> THEN kept
  ELSE IF \E i \in DOMAIN kept : kept[i] = Head(list)
       THEN NewSet(Tail(list), kept)
       ELSE NewSet(Tail(list), Append(kept, Head(list)))

\* The Model_Name values the API answers with.
ModelNames ==
  { Null, Str(<<>>), Str(<<" ">>), Str(<<"C", "i">>), Str(<<"C", "I">>),
    Str(<<"C", "i", " ">>), Str(<<"C", " ", " ", "i">>) }

ResultLists == UNION { [1..n -> ModelNames] : n \in 0..MaxNames }

\* getModelsForMakeYear(make, year) of the catalog generator.
GetModelsForMakeYear ==
  /\ mdFn = "none"
  /\ mdFn' = "getModelsForMakeYear"
  /\ mdModels' = SeenLoop(mdResults, {}, <<>>)
  /\ UNCHANGED mdResults
  /\ UNCHANGED << serverVars, catalogVars, ingestVars, retryVars, chunkVars >>

\* getModelsForMakeId(makeId, year) of the catalog exporter.
GetModelsForMakeId ==
  /\ mdFn = "none"
  /\ mdFn' = "getModelsForMakeId"
  /\ mdModels' = NewSet([i \in DOMAIN mdResults |-> Normalize(mdResults[i])], <<>>)
  /\ UNCHANGED mdResults
  /\ UNCHANGED << serverVars, catalogVars, ingestVars, retryVars, chunkVars >>

ModelsInit ==
  /\ ServerInit
  /\ rev = "part_000"
  /\ CatalogOff
  /\ IngestOff
  /\ RetryOff
  /\ mdResults \in ResultLists
  /\ mdFn = "none"
  /\ mdModels = <<>>
  /\ ChunkOff

ModelsNext ==
  \/ GetModelsForMakeYear
  \/ GetModelsForMakeId

ModelsSpec == ModelsInit /\ [][ModelsNext]_vars

\* ------------------------------------------------------- CSV to SQL chunks
CHUNK_ROWS == 2000

\* A buffer that is flushed only once it is over the chunk size.
ChunkOverfull(len) == len > CHUNK_ROWS

\* rows.length >= CHUNK_ROWS
ChunkFull(len) == len >= CHUNK_ROWS

\* The file writeChunk() writes for the buffer b as chunk number i: the
\* CREATE TABLE statement in chunk 1, then one INSERT of the tuples of b.
ChunkFile(i, b) == [createTable |-> (i = 1), tuples |-> b]

\* fs.writeFileSync(chunkFileName(i), sql): the file of that number is
\* created or replaced.
WriteFile(files, i, f) ==
  [k \in DOMAIN files \cup {i} |-> IF k = i THEN f ELSE files[k]]

\* writeChunk() called with the buffer b.
WriteChunk(b) ==
  IF b = <<>>
  THEN /\ ckRows' = b
       /\ UNCHANGED << chunkIndex, ckFiles >>
  ELSE /\ ckFiles' = WriteFile(ckFiles, chunkIndex, ChunkFile(chunkIndex, b))
       /\ ckRows' = <<>>
       /\ chunkIndex' = chunkIndex + 1

\* on("data"): the tuple of the row is pushed, and a full buffer is written.
CsvData ==
  /\ ckPc = "reading"
  /\ ckRead < MaxCsvRows
  /\ ckRead' = ckRead + 1
  /\ LET pushed == Append(ckRows, ckRead + 1)
     IN IF ChunkFull(Len(pushed))
        THEN WriteChunk(pushed)
        ELSE ckRows' = pushed /\ UNCHANGED << chunkIndex, ckFiles >>
  /\ UNCHANGED ckPc
  /\ UNCHANGED << serverVars, catalogVars, ingestVars, retryVars, modelsVars >>

\* on("end"): what is left in the buffer is written.
CsvEnd ==
  /\ ckPc = "reading"
  /\ ckPc' = "ended"
  /\ WriteChunk(ckRows)
  /\ UNCHANGED ckRead
  /\ UNCHANGED << serverVars, catalogVars, ingestVars, retryVars, modelsVars >>

\* on("error"): process.exit(1), with the files written so far left behind.
CsvError ==
  /\ ckPc = "reading"
  /\ ckPc' = "failed"
  /\ UNCHANGED << ckRead, chunkIndex, ckRows, ckFiles >>
  /\ UNCHANGED << serverVars, catalogVars, ingestVars, retryVars, modelsVars >>

ChunkInit ==
  /\ ServerInit
  /\ rev = "part_000"
  /\ CatalogOff
  /\ IngestOff
  /\ RetryOff
  /\ ModelsOff
  /\ ckPc = "reading"
  /\ ChunkStart

ChunkNext ==
  \/ CsvData
  \/ CsvEnd
  \/ CsvError

ChunkSpec == ChunkInit /\ [][ChunkNext]_vars

\* ------------------------------------------------------------------ claims
IsCreateVehicleRequest(rq) == rq.method = "POST" /\ rq.base = "vehicles"
LacksRequiredField(b) == ~Truthy(b.year) \/ ~Truthy(b.make) \/ ~Truthy(b.model)
IsListResponse(rs) == rs.handler \in {"listVehicles", "listVehiclesRaw"} /\ rs.status = 200
ListedIds(rs) == {rs.rows[k].id : k \in 1..Len(rs.rows)}
StoreFailed == console # <<>>

\* C1: in every revision, POST /api/vehicles without a truthy year, make or
\* model is answered 400 and the vehicles table stays as it was.
C1_MissingFieldRejected ==
  [][(IsCreateVehicleRequest(req') /\ LacksRequiredField(req'.body))
       => (resp'.status = 400 /\ vehicles' = vehicles /\ vehSeq' = vehSeq)]_vars

\* C2: PATCH /api/vehicles/:id with a mileage that is not a number is
\* answered 400 and no row's mileage changes.
NotNumeric(v) == v.t = "string" /\ IsNaN(ToNumber(v))
C2_NonNumericMileageRejected ==
  [][(req'.method = "PATCH" /\ NotNumeric(req'.body.mileage))
       => (resp'.status = 400 /\ vehicles' = vehicles)]_vars

\* C3 as claimed: a listing never shows an identifier that DELETE
\* /api/vehicles/:id has reported deleted, whatever ran in between.
C3_DeletedNeverListed ==
  IsListResponse(resp) => ListedIds(resp) \cap deletedEver = {}

\* C3 as amended: a listing never shows an identifier that DELETE
\* /api/vehicles/:id has reported deleted since the identity sequence last
\* restarted, that is, since the last successful DELETE /api/vehicles/all.
C3_DeletedNotListedUntilRestart ==
  IsListResponse(resp) => ListedIds(resp) \cap deletedSinceRestart = {}

\* A listing that shows a row while another identifier has been deleted.
C3_Witness ==
  /\ IsListResponse(resp)
  /\ deletedSinceRestart # {}
  /\ resp.rows # <<>>

\* C4: a vehicle-deleting request removes no vehicle that a service record
\* references and removes no service record.
C4_ReferencedVehicleKept ==
  [][(req'.method = "DELETE" /\ req'.base = "vehicles")
       => /\ services' = services
          /\ \A r \in vehicles : Referencing(services, r.id) # {} => r \in vehicles']_vars

\* C5: every stored mileage, of a vehicle or of a service record, is NULL
\* or a non-negative integer.
NonNegativeOrNull(v) == v = Null \/ (v.t = "number" /\ v.n >= 0)
C5_MileageNonNegative ==
  /\ \A r \in vehicles : NonNegativeOrNull(r.mileage)
  /\ \A s \in services : NonNegativeOrNull(s.mileage)

C7_BulkDeleteEmptiesListing ==
  /\ (req.method = "DELETE" /\ req.base = "vehicles" /\ req.seg = AllSeg)
       => resp.handler = "deleteAllVehicles"
  /\ (IsListResponse(resp) /\ bulkDeleted) => resp.rows = <<>>

\* C8: a failed store query is answered 500 with the handler's fixed
\* message, which is not the store error's text.
GenericErrors ==
  {"Failed to save vehicle", "Failed to fetch vehicles", "Failed to update vehicle",
   "Failed to delete vehicle", "Failed to create service record",
   "Failed to delete service record"}
C8_GenericStoreError ==
  StoreFailed =>
    /\ resp.status = 500
    /\ resp.error \in GenericErrors
    /\ \A k \in 1..Len(console) : resp.error # console[k]

RECURSIVE ReadDigits(_, _)
ReadDigits(s, acc) ==
  IF s = <<>> THEN acc
  ELSE ReadDigits(Tail(s), IF IsDigit(Head(s)) THEN acc * 10 + DigitVal(Head(s)) ELSE acc)
ExpectedMileage(v) ==
  IF v \in {Undefined, Null} THEN 0 ELSE ReadDigits(JsString(v), 0)

\* C10: the create handler of part_000, given year, make and model, stores
\* exactly one new row, whose mileage is the integer its digits form (0 when
\* absent or without digits), and answers 201 with that row, unless the
\* store query fails.
C10_CreateStoresDigits ==
  [][(resp'.handler = "createVehicle" /\ ~LacksRequiredField(req'.body)
        /\ resp'.status # 500) =>
       /\ resp'.status = 201
       /\ Len(resp'.rows) = 1
       /\ \E row \in vehicles' :
            /\ \A r \in vehicles : r.id # row.id
            /\ vehicles' = vehicles \cup {row}
            /\ row.mileage = Num(ExpectedMileage(req'.body.mileage))
            /\ resp'.rows[1].id = row.id
            /\ resp'.rows[1].mileage = Str(NatToStr(ExpectedMileage(req'.body.mileage)))]_vars

\* A vehicle was created from a mileage that mixes digits and other characters.
C10_Witness ==
  /\ resp.handler = "createVehicle"
  /\ resp.status = 201
  /\ req.body.mileage = Str(<<"1", "a", "2">>)
  /\ resp.rows[1].mileage = Str(<<"1", "2">>)

\* The text of v occurs in s when case is ignored.
ContainsIgnoringCase(s, v) ==
  LET w == LowerSeq(JsString(v))
      l == LowerSeq(s)
  IN \E i \in 0..Len(l) : i + Len(w) <= Len(l) /\ SubSeq(l, i + 1, i + Len(w)) = w

\* C11: a catalog answer holds exactly the rows whose year equals the given
\* year and whose make and model contain the given texts literally, case
\* ignored; a filter that is not given restricts nothing.
C11_CatalogFilters ==
  catResp.status = 200 =>
    catResp.rows =
      {r \in catalog :
         /\ catQuery.year # Undefined => Num(r.year) = ToNumber(catQuery.year)
         /\ catQuery.make # Undefined => ContainsIgnoringCase(r.make, catQuery.make)
         /\ catQuery.model # Undefined => ContainsIgnoringCase(r.model, catQuery.model)}

\* The items a run of the script has to attempt: the rows of the CSV, or
\* every make of every year.
IngestItems ==
  IF ingScript = "importCSV" THEN 1..ingCount
  ELSE (1..MaxYears) \X (1..ingCount)

Occurrences(log, x) == Cardinality({i \in DOMAIN log : log[i] = x})

\* C12: in every ingestion script the failure of one item (a year/make fetch,
\* a model's trim fetch, a CSV row insert) does not stop the run: the run is
\* never ended by it, no item is attempted twice, and a run that got past its
\* startup attempts every item exactly once and, for each make and year,
\* every model's trims exactly once.
C12_ItemFailureNonFatal ==
  /\ ingPc \notin UnhandledRejection
  /\ \A x \in IngestItems : Occurrences(ingLog, x) <= 1
  /\ ingPc = "done" => \A x \in IngestItems : Occurrences(ingLog, x) = 1
  /\ ingPc \in {"loop", "done"} => ingTrims = [j \in 1..ingModels |-> j]
  /\ ingPc = "trims" => ingTrims = [j \in 1..Len(ingTrims) |-> j]

\* C13: getJson makes at most `tries` attempts and is not left running with
\* none to make; it returns the first successful response without a further
\* attempt; after failed attempt i (from 0) that is not the last it has slept
\* 300 + 300 * i ms; after the last failed attempt it throws that attempt's
\* error without sleeping; and for tries >= 1 it never returns undefined.
C13_GetJsonRetries ==
  /\ gjAttempts <= gjTries
  /\ gjPc \in {"attempt", "sleeping"} => gjAttempts < gjTries
  /\ gjSleeps = [k \in 1..Len(gjSleeps) |-> 300 + 300 * (k - 1)]
  /\ gjPc = "attempt" => Len(gjErrors) = gjAttempts /\ Len(gjSleeps) = gjAttempts
  /\ gjPc = "sleeping" => Len(gjErrors) = gjAttempts /\ Len(gjSleeps) = gjAttempts
  /\ (gjPc = "returned" /\ gjTries >= 1) =>
       /\ gjResult = [kind |-> "json"]
       /\ Len(gjErrors) = gjAttempts - 1
       /\ Len(gjSleeps) = gjAttempts - 1
  /\ gjPc = "thrown" =>
       /\ gjAttempts = gjTries
       /\ Len(gjErrors) = gjTries
       /\ gjResult = [kind |-> "error", e |-> gjErrors[gjTries]]
       /\ Len(gjSleeps) = gjTries - 1

\* Three tries all failed: two sleeps, then the third error is thrown.
C13_Witness ==
  /\ gjPc = "thrown"
  /\ gjTries = 3
  /\ gjSleeps = <<300, 600>>
  /\ gjErrors[3] # gjErrors[1]

\* The name a result stands for: its text without the spaces around it, none
\* when the API gives no name.
CleanName(v) == Trim(JsString(Coalesce(v, Str(<<>>))))

\* One name is a later result's name when the two are equal ignoring case and
\* the spacing inside them.
SameName(a, b) == LowerSeq(CollapseSpaces(a)) = LowerSeq(CollapseSpaces(b))

\* C14: the list of models a make has in a year, from getModelsForMakeYear
\* and from getModelsForMakeId alike, has no two names equal ignoring case
\* and no empty name, and it holds, in the order of the results, the first
\* occurrence of every name the results carry.
C14_ModelsDistinct ==
  mdFn # "none" =>
    /\ \A i, j \in DOMAIN mdModels :
         i # j => LowerSeq(mdModels[i]) # LowerSeq(mdModels[j])
    /\ \A i \in DOMAIN mdModels : mdModels[i] # <<>>
    /\ \A i \in DOMAIN mdResults :
         CleanName(mdResults[i]) # <<>> =>
           \E k \in DOMAIN mdModels :
             /\ SameName(mdModels[k], CleanName(mdResults[i]))
             /\ \A j \in DOMAIN mdResults :
                  (j < i /\ SameName(CleanName(mdResults[j]), CleanName(mdResults[i])))
                    => SameName(mdModels[k], CleanName(mdResults[j]))
    /\ \A k, l \in DOMAIN mdModels :
         k < l =>
           \E i, j \in DOMAIN mdResults :
             /\ i < j
             /\ SameName(CleanName(mdResults[i]), mdModels[k])
             /\ SameName(CleanName(mdResults[j]), mdModels[l])

\* The tuples of the files numbered 1..k, in file order.
RECURSIVE TuplesUpTo(_)
TuplesUpTo(k) == IF k = 0 THEN <<>> ELSE TuplesUpTo(k - 1) \o ckFiles[k].tuples

\* C15: once a CSV of n rows is read to its end there are exactly
\* ceil(n / 2000) chunk files, numbered from 1 without a gap (none for n = 0),
\* and their tuples in file order are the rows 1..n in order, each once; at
\* all times every file but the last written holds exactly 2000 tuples, the
\* last at least one and at most 2000, and file 1 alone has the CREATE TABLE
\* statement.
C15_ChunkFiles ==
  /\ DOMAIN ckFiles = 1..(chunkIndex - 1)
  /\ \A i \in DOMAIN ckFiles :
       /\ Len(ckFiles[i].tuples) >= 1
       /\ Len(ckFiles[i].tuples) <= 2000
       /\ i < chunkIndex - 1 => Len(ckFiles[i].tuples) = 2000
       /\ ckFiles[i].createTable <=> i = 1
  /\ ckPc = "ended" =>
       /\ DOMAIN ckFiles = 1..((ckRead + 1999) \div 2000)
       /\ TuplesUpTo(chunkIndex - 1) = [k \in 1..ckRead |-> k]

\* A CSV of 4001 rows was converted: two full files and a third of one row.
C15_Witness ==
  /\ ckPc = "ended"
  /\ ckRead = 4001
  /\ DOMAIN ckFiles = 1..3
  /\ ckFiles[3].tuples = <<4001>>
  /\ ~ckFiles[3].createTable
====
